---- MODULE Spec2Model ----
(***************************************************************************)
(* Model of demo.py: a relay from a PSDK payload endpoint to an MSDK       *)
(* endpoint.  PSDKReceiver.data_callback puts items on the module-level    *)
(* data_queue; the thread started by DataBridge.start() runs               *)
(* DataBridge._bridge_worker, which gets items and hands them to           *)
(* MSDKTransmitter.send_signal.  The caller thread invokes                 *)
(* DataBridge.start() and DataBridge.stop().                               *)
(*                                                                         *)
(* The two SDK clients (dji_sdk.psdk.PSDKClient, dji_sdk.msdk.MSDKClient)  *)
(* are not part of the repository.  Every client call made inside a try    *)
(* block of the source may return or raise; send_data may return True or   *)
(* False or raise.  The teardown calls of the stop() methods are outside    *)
(* any try block and are taken to return.                                  *)
(*                                                                         *)
(* Items are numbered in the order data_callback puts them (item n is the  *)
(* n-th put), which gives every item an identity.                          *)
(***************************************************************************)
EXTENDS Naturals, Sequences, FiniteSets

\* ---------------------------------------------------------------- bounds
MaxItems == 2       \* calls of data_callback in one run
MaxStarts == 2      \* calls of DataBridge.start() on one DataBridge
MaxStops == 2       \* calls of DataBridge.stop() on one DataBridge
MaxBridges == 2     \* DataBridge objects constructed in one run

Workers == 1..MaxStarts     \* one thread per start() that reaches line 214

VARIABLES
    data_queue,      \* line 27: the items on queue.Queue(), oldest first
    unfinished,      \* queue.Queue.unfinished_tasks: put adds 1, task_done takes 1
    psdk_client,     \* PSDKReceiver.psdk_client: "None", or the client's condition
    psdk_running,    \* PSDKReceiver.running
    registered,      \* the inbound client holds data_callback
    receiving,       \* the inbound client is between start_receiving and stop_receiving
    msdk_client,     \* MSDKTransmitter.msdk_client: "None", or the client's condition
    msdk_running,    \* MSDKTransmitter.running
    bridge_running,  \* DataBridge.running
    bridge_thread,   \* DataBridge.bridge_thread: 0 for None, else the newest thread
    wpc,             \* where each thread is in _bridge_worker
    held,            \* the local `data` of each thread (0: none)
    cpc,             \* where the caller is in DataBridge.start() / DataBridge.stop()
    start_ret,       \* what the last finished DataBridge.start() returned
    nput,            \* number of data_callback calls so far
    sent,            \* the items passed to send_signal, in call order
    failed,          \* the items whose send attempt returned False or raised
    client_calls,    \* the teardown calls made on the two clients, in order
    start_calls,     \* DataBridge.start() calls begun
    stop_calls,      \* DataBridge.stop() calls begun
    stop_done,       \* DataBridge.stop() calls finished
    spawned,         \* threads created by DataBridge.start()
    psdk_started,    \* PSDKReceiver.start() calls that returned True
    msdk_started,    \* MSDKTransmitter.start() calls that returned True
    after_stop,      \* <<gets, send attempts>> the first thread made, with no other
                     \* thread created, while DataBridge.running was False
    stale,           \* the items put before this DataBridge was constructed
    bridges          \* DataBridge objects constructed so far

vars == <<data_queue, unfinished, psdk_client, psdk_running, registered, receiving,
          msdk_client, msdk_running, bridge_running, bridge_thread, wpc, held, cpc,
          start_ret, nput, sent, failed, client_calls, start_calls, stop_calls,
          stop_done, spawned, psdk_started, msdk_started, after_stop, stale, bridges>>

queue_vars == <<data_queue, unfinished, nput>>
psdk_vars == <<psdk_client, psdk_running, registered, receiving>>
msdk_vars == <<msdk_client, msdk_running>>
worker_vars == <<wpc, held, sent, failed>>
count_vars == <<start_calls, stop_calls, stop_done, spawned>>
started_vars == <<psdk_started, msdk_started>>
instance_vars == <<stale, bridges>>

ClientStates == {"None", "created", "initialized", "finalized"}
WorkerPcs == {"unborn", "loop", "get", "send_signal", "send_data", "task_done", "exited"}
CallerPcs == {"idle", "start_msdk", "rollback", "spawn",
              "join", "stop_psdk", "stop_msdk"}

TypeOK ==
    /\ data_queue \in Seq(1..MaxItems)
    /\ unfinished \in 0..MaxItems
    /\ psdk_client \in ClientStates
    /\ msdk_client \in ClientStates
    /\ psdk_running \in BOOLEAN /\ msdk_running \in BOOLEAN
    /\ registered \in BOOLEAN /\ receiving \in BOOLEAN
    /\ bridge_running \in BOOLEAN
    /\ bridge_thread \in 0..MaxStarts
    /\ wpc \in [Workers -> WorkerPcs]
    /\ held \in [Workers -> 0..MaxItems]
    /\ cpc \in CallerPcs
    /\ start_ret \in {"none", "True", "False"}
    /\ nput \in 0..MaxItems
    /\ sent \in Seq(1..MaxItems)
    /\ failed \subseteq 1..MaxItems
    /\ start_calls \in 0..MaxStarts /\ stop_calls \in 0..MaxStops
    /\ stop_done \in 0..MaxStops /\ spawned \in 0..MaxStarts
    /\ psdk_started \in 0..MaxStarts /\ msdk_started \in 0..MaxStarts
    /\ after_stop \in (0..MaxItems) \X (0..MaxItems)
    /\ stale \subseteq 1..MaxItems
    /\ bridges \in 1..MaxBridges

\* lines 27, 32-36, 86-90, 152-174: the module is loaded and one DataBridge built
Init ==
    /\ data_queue = <<>>
    /\ unfinished = 0
    /\ psdk_client = "None"
    /\ psdk_running = FALSE
    /\ registered = FALSE
    /\ receiving = FALSE
    /\ msdk_client = "None"
    /\ msdk_running = FALSE
    /\ bridge_running = FALSE
    /\ bridge_thread = 0
    /\ wpc = [w \in Workers |-> "unborn"]
    /\ held = [w \in Workers |-> 0]
    /\ cpc = "idle"
    /\ start_ret = "none"
    /\ nput = 0
    /\ sent = <<>>
    /\ failed = {}
    /\ client_calls = <<>>
    /\ start_calls = 0
    /\ stop_calls = 0
    /\ stop_done = 0
    /\ spawned = 0
    /\ psdk_started = 0
    /\ msdk_started = 0
    /\ after_stop = <<0, 0>>
    /\ stale = {}
    /\ bridges = 1

\* ------------------------------------------------------------ the queue
\* queue.Queue() of line 27 has maxsize 0: put never finds the queue full
QueueFullBounded(q) == Len(q) >= 1
QueueFull(q) == FALSE

\* queue.Queue.put: the item goes to the tail
QueuePut(q, item) == Append(q, item)

\* queue.Queue.get: the item handed out is the oldest one ...
QueueGetItemNewest(q) == q[Len(q)]
QueueGetItem(q) == Head(q)

\* ... and it leaves the queue
QueueGetRestPeek(q) == q
QueueGetRest(q) == Tail(q)

\* lines 50-54: PSDKReceiver.data_callback, invoked by the inbound client for each
\* item it receives while it is receiving and holds the callback
data_callback ==
    /\ receiving /\ registered
    /\ nput < MaxItems
    /\ ~QueueFull(data_queue)
    /\ data_queue' = QueuePut(data_queue, nput + 1)
    /\ unfinished' = unfinished + 1
    /\ nput' = nput + 1
    /\ UNCHANGED <<after_stop, instance_vars,
                   started_vars, psdk_vars, msdk_vars, bridge_running, bridge_thread, worker_vars,
                   cpc, start_ret, client_calls, count_vars>>

\* ------------------------------------------------------------ PSDKReceiver
\* Outcomes of the client calls PSDKReceiver.start() makes inside its try blocks:
\* the first call that raises, or "ok" when none does.  With a client already
\* stored (line 58 false) connect() is skipped and lines 42-43 cannot raise.
PSDKStartOutcomes(client) ==
    IF client = "None"
    THEN {"ctor_raise", "init_raise", "register_raise", "recv_raise", "ok"}
    ELSE {"register_raise", "recv_raise", "ok"}

\* lines 38-48, 58-60: psdk_client after start(); line 42 stores the client before
\* line 43 initializes it
PSDKClientAfterStart(client, o) ==
    IF client # "None" THEN client
    ELSE IF o = "ctor_raise" THEN "None"
    ELSE IF o = "init_raise" THEN "created"
    ELSE "initialized"

\* lines 56-72: PSDKReceiver.start() with outcome o; it returns True iff o = "ok"
PSDKReceiver_start(o) ==
    /\ o \in PSDKStartOutcomes(psdk_client)
    /\ psdk_client' = PSDKClientAfterStart(psdk_client, o)
    /\ registered' = (registered \/ o \in {"recv_raise", "ok"})
    /\ psdk_running' = (psdk_running \/ o \in {"recv_raise", "ok"})
    /\ receiving' = (receiving \/ o = "ok")
    /\ psdk_started' = IF o = "ok" THEN psdk_started + 1 ELSE psdk_started

\* line 76: the guard of PSDKReceiver.stop()
PSDKStopActsNever(client, running) == FALSE
PSDKStopActs(client, running) == client # "None" /\ running

\* lines 78-79: the client calls of PSDKReceiver.stop(), in order
PSDKTeardownReversed == <<"psdk_finalize", "stop_receiving">>
PSDKTeardown == <<"stop_receiving", "psdk_finalize">>

\* lines 74-80: PSDKReceiver.stop()
PSDKReceiver_stop ==
    IF PSDKStopActs(psdk_client, psdk_running)
    THEN /\ psdk_running' = FALSE
         /\ receiving' = FALSE
         /\ psdk_client' = "finalized"
         /\ client_calls' = client_calls \o PSDKTeardown
         /\ UNCHANGED registered
    ELSE UNCHANGED <<psdk_vars, client_calls>>

\* --------------------------------------------------------- MSDKTransmitter
\* Outcomes of the client calls MSDKTransmitter.start() makes (lines 96-97)
MSDKStartOutcomes(client) ==
    IF client = "None" THEN {"ctor_raise", "init_raise", "ok"} ELSE {"ok"}

\* lines 92-102, 133-135: msdk_client after start(); line 96 stores the client
\* before line 97 initializes it
MSDKClientAfterStart(client, o) ==
    IF client # "None" THEN client
    ELSE IF o = "ctor_raise" THEN "None"
    ELSE IF o = "init_raise" THEN "created"
    ELSE "initialized"

\* lines 131-139: MSDKTransmitter.start() with outcome o; True iff o = "ok"
MSDKTransmitter_start(o) ==
    /\ o \in MSDKStartOutcomes(msdk_client)
    /\ msdk_client' = MSDKClientAfterStart(msdk_client, o)
    /\ msdk_running' = (msdk_running \/ o = "ok")
    /\ msdk_started' = IF o = "ok" THEN msdk_started + 1 ELSE msdk_started

\* line 143: the guard of MSDKTransmitter.stop()
MSDKStopActs(client, running) == client # "None" /\ running

\* lines 141-146: MSDKTransmitter.stop()
MSDKTransmitter_stop ==
    IF MSDKStopActs(msdk_client, msdk_running)
    THEN /\ msdk_running' = FALSE
         /\ msdk_client' = "finalized"
         /\ client_calls' = client_calls \o <<"msdk_finalize">>
    ELSE UNCHANGED <<msdk_vars, client_calls>>

\* -------------------------------------------------------- DataBridge.start
\* line 202: start() calls PSDKReceiver.start(); lines 203-204 on failure
DataBridge_start_receiver ==
    /\ cpc = "idle"
    /\ start_calls < MaxStarts
    /\ start_calls' = start_calls + 1
    /\ \E o \in PSDKStartOutcomes(psdk_client) :
          /\ PSDKReceiver_start(o)
          /\ cpc' = IF o = "ok" THEN "start_msdk" ELSE "idle"
          /\ start_ret' = IF o = "ok" THEN start_ret ELSE "False"
    /\ UNCHANGED <<after_stop, instance_vars,
                   msdk_started, queue_vars, msdk_vars, bridge_running, bridge_thread, worker_vars,
                   client_calls, stop_calls, stop_done, spawned>>

\* line 207: start() calls MSDKTransmitter.start()
DataBridge_start_transmitter ==
    /\ cpc = "start_msdk"
    /\ \E o \in MSDKStartOutcomes(msdk_client) :
          /\ MSDKTransmitter_start(o)
          /\ cpc' = IF o = "ok" THEN "spawn" ELSE "rollback"
    /\ UNCHANGED <<after_stop, instance_vars,
                   psdk_started, queue_vars, psdk_vars, bridge_running, bridge_thread, worker_vars,
                   start_ret, client_calls, count_vars>>

\* lines 208-210: the transmitter did not start: stop the receiver, return False
DataBridge_start_rollback ==
    /\ cpc = "rollback"
    /\ PSDKReceiver_stop
    /\ start_ret' = "False"
    /\ cpc' = "idle"
    /\ UNCHANGED <<after_stop, instance_vars,
                   started_vars, queue_vars, msdk_vars, bridge_running, bridge_thread, worker_vars,
                   count_vars>>

\* lines 213-219: set running, create and start the thread, return True
DataBridge_start_spawn ==
    /\ cpc = "spawn"
    /\ bridge_running' = TRUE
    /\ spawned' = spawned + 1
    /\ bridge_thread' = spawned + 1
    /\ wpc' = [wpc EXCEPT ![spawned + 1] = "loop"]
    /\ start_ret' = "True"
    /\ cpc' = "idle"
    /\ after_stop' = <<0, 0>>
    /\ UNCHANGED <<instance_vars,
                   started_vars, queue_vars, psdk_vars, msdk_vars, held, sent, failed, client_calls,
                   start_calls, stop_calls, stop_done>>

\* --------------------------------------------------------- DataBridge.stop
\* threading.Thread.is_alive of the thread stored in bridge_thread
ThreadAlive == bridge_thread # 0 /\ wpc[bridge_thread] # "exited"

\* lines 226-227: clear running; join only a thread that is alive
DataBridge_stop_begin ==
    /\ cpc = "idle"
    /\ stop_calls < MaxStops
    /\ stop_calls' = stop_calls + 1
    /\ bridge_running' = FALSE
    /\ cpc' = IF ThreadAlive THEN "join" ELSE "stop_psdk"
    /\ UNCHANGED <<after_stop, instance_vars,
                   started_vars, queue_vars, psdk_vars, msdk_vars, bridge_thread, worker_vars,
                   start_ret, client_calls, start_calls, stop_done, spawned>>

\* line 228: join returns because the thread ended
DataBridge_stop_join ==
    /\ cpc = "join"
    /\ ~ThreadAlive
    /\ cpc' = "stop_psdk"
    /\ UNCHANGED <<after_stop, instance_vars,
                   started_vars, queue_vars, psdk_vars, msdk_vars, bridge_running, bridge_thread,
                   worker_vars, start_ret, client_calls, count_vars>>

\* line 228: join returns because timeout=5.0 ran out with the thread alive
DataBridge_stop_join_timeout ==
    /\ cpc = "join"
    /\ ThreadAlive
    /\ cpc' = "stop_psdk"
    /\ UNCHANGED <<after_stop, instance_vars,
                   started_vars, queue_vars, psdk_vars, msdk_vars, bridge_running, bridge_thread,
                   worker_vars, start_ret, client_calls, count_vars>>

\* line 231: stop() calls PSDKReceiver.stop()
DataBridge_stop_receiver ==
    /\ cpc = "stop_psdk"
    /\ PSDKReceiver_stop
    /\ cpc' = "stop_msdk"
    /\ UNCHANGED <<after_stop, instance_vars,
                   started_vars, queue_vars, msdk_vars, bridge_running, bridge_thread, worker_vars,
                   start_ret, count_vars>>

\* lines 232-234: stop() calls MSDKTransmitter.stop() and returns
DataBridge_stop_transmitter ==
    /\ cpc = "stop_msdk"
    /\ MSDKTransmitter_stop
    /\ cpc' = "idle"
    /\ stop_done' = stop_done + 1
    /\ UNCHANGED <<after_stop, instance_vars,
                   started_vars, queue_vars, psdk_vars, bridge_running, bridge_thread, worker_vars,
                   start_ret, start_calls, stop_calls, spawned>>

\* --------------------------------------------------- DataBridge._bridge_worker
SendResults == {"True", "False", "raise"}

\* lines 116-118, 189-195: where the thread goes once the send attempt is over:
\* send_signal turns an exception into False, and the worker ignores the result
AfterSendStopOnFailure(r) == IF r = "True" THEN "task_done" ELSE "exited"
AfterSend(r) == "task_done"

\* line 180: `while self.running`
LoopTestIgnoresFlag(running) == TRUE
LoopTest(running) == running

\* lines 185-186: on queue.Empty the worker goes back to the loop test
AfterEmptyBreaks == "exited"
AfterEmpty == "loop"

\* lines 180, 197: the loop test; the thread ends when it fails
bridge_worker_loop(w) ==
    /\ wpc[w] = "loop"
    /\ wpc' = [wpc EXCEPT ![w] = IF LoopTest(bridge_running) THEN "get" ELSE "exited"]
    /\ UNCHANGED <<after_stop, instance_vars,
                   started_vars, queue_vars, psdk_vars, msdk_vars, bridge_running, bridge_thread,
                   held, sent, failed, cpc, start_ret, client_calls, count_vars>>

\* line 184: get returns the oldest item
bridge_worker_get(w) ==
    /\ wpc[w] = "get"
    /\ data_queue # <<>>
    /\ held' = [held EXCEPT ![w] = QueueGetItem(data_queue)]
    /\ data_queue' = QueueGetRest(data_queue)
    /\ wpc' = [wpc EXCEPT ![w] = "send_signal"]
    /\ after_stop' = IF bridge_running \/ spawned > 1 THEN after_stop
                   ELSE <<after_stop[1] + 1, after_stop[2]>>
    /\ UNCHANGED <<instance_vars,
                   started_vars, unfinished, nput, psdk_vars, msdk_vars, bridge_running,
                   bridge_thread, sent, failed, cpc, start_ret, client_calls,
                   count_vars>>

\* lines 184-186: get(timeout=1.0) raises queue.Empty; continue
bridge_worker_get_timeout(w) ==
    /\ wpc[w] = "get"
    /\ data_queue = <<>>
    /\ wpc' = [wpc EXCEPT ![w] = AfterEmpty]
    /\ UNCHANGED <<after_stop, instance_vars,
                   started_vars, queue_vars, psdk_vars, msdk_vars, bridge_running, bridge_thread,
                   held, sent, failed, cpc, start_ret, client_calls, count_vars>>

\* lines 189, 104-113: send_signal is called with the item; without a client it
\* returns False at once (lines 106-108), else it calls send_data
bridge_worker_send_signal(w) ==
    /\ wpc[w] = "send_signal"
    /\ sent' = Append(sent, held[w])
    /\ IF msdk_client = "None"
       THEN /\ wpc' = [wpc EXCEPT ![w] = AfterSend("False")]
            /\ failed' = failed \cup {held[w]}
       ELSE /\ wpc' = [wpc EXCEPT ![w] = "send_data"]
            /\ UNCHANGED failed
    /\ after_stop' = IF bridge_running \/ spawned > 1 THEN after_stop
                   ELSE <<after_stop[1], after_stop[2] + 1>>
    /\ UNCHANGED <<instance_vars,
                   started_vars, queue_vars, psdk_vars, msdk_vars, bridge_running, bridge_thread,
                   held, cpc, start_ret, client_calls, count_vars>>

\* lines 113-118: send_data returns True or False, or raises (send_signal then
\* returns False)
bridge_worker_send_return(w) ==
    /\ wpc[w] = "send_data"
    /\ \E r \in SendResults :
          /\ wpc' = [wpc EXCEPT ![w] = AfterSend(r)]
          /\ failed' = IF r = "True" THEN failed ELSE failed \cup {held[w]}
    /\ UNCHANGED <<after_stop, instance_vars,
                   started_vars, queue_vars, psdk_vars, msdk_vars, bridge_running, bridge_thread,
                   held, sent, cpc, start_ret, client_calls, count_vars>>

\* queue.Queue.task_done: one unfinished task fewer
TaskDoneSkipped(n) == n
TaskDone(n) == n - 1

\* line 192: task_done, then back to the loop test
bridge_worker_task_done(w) ==
    /\ wpc[w] = "task_done"
    /\ unfinished' = TaskDone(unfinished)
    /\ held' = [held EXCEPT ![w] = 0]
    /\ wpc' = [wpc EXCEPT ![w] = "loop"]
    /\ UNCHANGED <<after_stop, instance_vars,
                   started_vars, data_queue, nput, psdk_vars, msdk_vars, bridge_running,
                   bridge_thread, sent, failed, cpc, start_ret, client_calls,
                   count_vars>>

bridge_worker(w) ==
    \/ bridge_worker_loop(w)
    \/ bridge_worker_get(w)
    \/ bridge_worker_get_timeout(w)
    \/ bridge_worker_send_signal(w)
    \/ bridge_worker_send_return(w)
    \/ bridge_worker_task_done(w)

\* ------------------------------------------------------------ specification
DataBridge_start ==
    \/ DataBridge_start_receiver
    \/ DataBridge_start_transmitter
    \/ DataBridge_start_rollback
    \/ DataBridge_start_spawn

\* the steps of stop() after its first
DataBridge_stop_rest ==
    \/ DataBridge_stop_join
    \/ DataBridge_stop_join_timeout
    \/ DataBridge_stop_receiver
    \/ DataBridge_stop_transmitter

Next ==
    \/ data_callback
    \/ DataBridge_start
    \/ DataBridge_stop_begin
    \/ DataBridge_stop_rest
    \/ \E w \in Workers : bridge_worker(w)

\* Any sequence of start() and stop() calls by one caller
Spec == Init /\ [][Next]_vars

\* lines 251-268: main() calls start() once and, after it has returned (and, when
\* it returned True, after an interrupt), stop() once
main_start ==
    /\ start_calls = 0
    /\ stop_calls = 0
    /\ DataBridge_start_receiver

main_stop ==
    /\ start_ret # "none"
    /\ stop_calls = 0
    /\ DataBridge_stop_begin

NextMain ==
    \/ data_callback
    \/ main_start
    \/ DataBridge_start_transmitter
    \/ DataBridge_start_rollback
    \/ DataBridge_start_spawn
    \/ main_stop
    \/ DataBridge_stop_rest
    \/ \E w \in Workers : bridge_worker(w)

\* Threads that can take a step do take one: each worker thread runs (and a send
\* in progress returns), and a start() or stop() under way goes on to its end.
\* When items arrive and when the interrupt comes is up to the environment.
MainFairness ==
    /\ \A w \in Workers : WF_vars(bridge_worker(w))
    /\ WF_vars(DataBridge_start_transmitter \/ DataBridge_start_rollback
                  \/ DataBridge_start_spawn)
    /\ WF_vars(DataBridge_stop_rest)

MainSpec == Init /\ [][NextMain]_vars /\ MainFairness

\* -------------------------------------------------- a second DataBridge
\* lines 152-174 (with 32-36 and 86-90): the caller builds another DataBridge,
\* once the one before has no thread alive and its inbound client is not
\* delivering.  The new object has a new PSDKReceiver and MSDKTransmitter, no
\* thread and running False.  __init__ makes no queue: data_queue of line 27
\* belongs to the module and keeps what it holds.
DataBridge_new ==
    /\ bridges < MaxBridges
    /\ cpc = "idle"
    /\ \A w \in Workers : wpc[w] \in {"unborn", "exited"}
    /\ ~receiving
    /\ bridges' = bridges + 1
    /\ stale' = 1..nput
    /\ psdk_client' = "None" /\ psdk_running' = FALSE
    /\ registered' = FALSE /\ receiving' = FALSE
    /\ msdk_client' = "None" /\ msdk_running' = FALSE
    /\ bridge_running' = FALSE
    /\ bridge_thread' = 0
    /\ wpc' = [w \in Workers |-> "unborn"]
    /\ held' = [w \in Workers |-> 0]
    /\ start_ret' = "none"
    /\ client_calls' = <<>>
    /\ start_calls' = 0 /\ stop_calls' = 0 /\ stop_done' = 0 /\ spawned' = 0
    /\ psdk_started' = 0 /\ msdk_started' = 0
    /\ after_stop' = <<0, 0>>
    /\ UNCHANGED <<queue_vars, sent, failed, cpc>>

NextInstances ==
    \/ Next
    \/ DataBridge_new

\* One DataBridge after another in one process, each started and stopped at will
SpecInstances == Init /\ [][NextInstances]_vars

\* ---------------------------------------------------------------- helpers
Range(q) == {q[i] : i \in 1..Len(q)}
Occurrences(q, x) == Cardinality({i \in 1..Len(q) : q[i] = x})
\* the items put so far, in put order
Pushed == [i \in 1..nput |-> i]
IsPrefix(p, q) == Len(p) <= Len(q) /\ \A i \in 1..Len(p) : p[i] = q[i]
Alive(w) == wpc[w] \notin {"unborn", "exited"}

\* ------------------------------------------------------------------ claims

\* C1: with start() having succeeded once, the items passed to send_signal are, in
\* every reachable state, a prefix of the items data_callback has put: the same
\* items in the same order with none skipped.
C1_FifoRelay == spawned <= 1 => IsPrefix(sent, Pushed)

C1_Witness ==
    /\ spawned = 1
    /\ sent = <<1, 2>>
    /\ failed # {}
    /\ stop_calls = 0

\* C2: no item is passed to send_signal twice, and an item that was passed to it
\* (whatever the outcome of the attempt) is not on the queue again.
C2_AtMostOnce ==
    /\ \A i \in 1..MaxItems : Occurrences(sent, i) <= 1
    /\ \A i \in 1..MaxItems : Occurrences(data_queue, i) <= 1
    /\ Range(sent) \cap Range(data_queue) = {}
    /\ failed \subseteq Range(sent)

C2_Witness ==
    /\ 1 \in failed
    /\ Len(sent) >= 2
    /\ \E w \in Workers : wpc[w] = "loop"

\* C3: a send attempt that returns False or raises changes neither
\* DataBridge.running nor the thread's life (the thread goes on to task_done), and
\* with stop() not called the next item on the queue is then popped and passed to
\* send_signal.
C3_SoftFailureContained ==
    /\ [][failed' # failed =>
            /\ bridge_running' = bridge_running
            /\ \A w \in Workers : wpc'[w] # wpc[w] => wpc'[w] = "task_done"]_vars
    /\ \A k \in 1..(MaxItems - 1) :
          (k \in failed /\ k + 1 \in Range(data_queue) /\ stop_calls = 0)
              ~> (k + 1 \in Range(sent) \/ stop_calls > 0)

C3_Witness ==
    /\ 1 \in failed
    /\ 2 \in Range(sent)
    /\ bridge_running
    /\ wpc[1] = "send_data"
    /\ stop_calls = 0

\* C4: the step of start() taken when the receiver started and the transmitter did
\* not performs stop_receiving and then finalize on the receiver's client, each
\* once, and start() then returns False with DataBridge.running False and no
\* thread created.
C4_StartupRollback ==
    /\ [](cpc = "rollback" =>
            /\ psdk_running /\ psdk_client # "None"
            /\ ~msdk_running)
    /\ [][(cpc = "rollback" /\ cpc' # "rollback") =>
            /\ client_calls' = client_calls \o <<"stop_receiving", "psdk_finalize">>
            /\ ~psdk_running' /\ ~receiving'
            /\ cpc' = "idle" /\ start_ret' = "False"
            /\ ~bridge_running'
            /\ bridge_thread' = 0 /\ spawned' = 0
            /\ \A w \in Workers : wpc'[w] = "unborn"]_vars

C4_Witness ==
    /\ cpc = "idle"
    /\ start_ret = "False"
    /\ start_calls = 1
    /\ msdk_client = "created"
    /\ client_calls = <<"stop_receiving", "psdk_finalize">>
    /\ nput > 0

\* C5: in a run of main(), once stop() has been called the worker thread
\* eventually ends, however many items are on the queue; from then on nothing is
\* sent and nothing leaves the queue; and stop() comes to its end, with both
\* endpoints stopped, also when its join timed out.
C5_GracefulShutdown ==
    /\ (stop_calls > 0) ~> (\A w \in Workers : ~Alive(w))
    /\ [][(stop_calls > 0 /\ \A w \in Workers : ~Alive(w)) =>
            /\ sent' = sent
            /\ IsPrefix(data_queue, data_queue')]_vars
    /\ (stop_calls > 0) ~> (stop_done > 0)
    /\ [](stop_done > 0 => (~psdk_running /\ ~receiving /\ ~msdk_running
                               /\ ~bridge_running /\ cpc = "idle"))

\* stop() has gone past a join that timed out, with items left on the queue
C5_Witness ==
    /\ cpc = "stop_psdk"
    /\ wpc[1] = "send_data"
    /\ Len(data_queue) >= 1

\* C6: in a run of main(), an item on the queue of a running bridge is eventually
\* passed to send_signal unless stop() is called, whatever the earlier results.
C6_EventualForwarding ==
    \A i \in 1..MaxItems :
        (i \in Range(data_queue) /\ bridge_running)
            ~> (i \in Range(sent) \/ stop_calls > 0)

C6_Witness ==
    /\ stop_calls = 0
    /\ failed = {1}
    /\ sent = <<1, 2>>

\* C7: once a stop() has come to its end, DataBridge.running is never True again
\* and no further thread is created, whatever calls follow.
C7_StoppedIsTerminal ==
    [][stop_done > 0 => (~bridge_running' /\ spawned' = spawned)]_vars

\* C8 as stated: stop() stops the receiver before it has the worker stop and
\* joins it, so that during the join the client no longer delivers and no item
\* is put on the queue once the worker has ended because of stop().
C8_IntakeStoppedFirst ==
    /\ [](cpc = "join" => ~receiving)
    /\ [][(cpc \in {"join", "stop_psdk"} /\ ~ThreadAlive) => nput' = nput]_vars

\* C8 as the code has it: stop() clears DataBridge.running first and joins the
\* worker, then stops the receiver (stop_receiving, finalize), and only then
\* stops the transmitter (finalize); items are put on the queue only while the
\* inbound client is receiving, which ends with PSDKReceiver.stop(), so none is
\* put between that step and the end of stop().
C8_ShutdownOrder ==
    /\ [](cpc \in {"join", "stop_psdk", "stop_msdk"} => ~bridge_running)
    /\ [](cpc = "stop_msdk" => (~receiving /\ ~psdk_running))
    /\ [][(cpc = "stop_psdk" /\ cpc' # "stop_psdk") =>
            /\ cpc' = "stop_msdk"
            /\ msdk_client' = msdk_client /\ msdk_running' = msdk_running
            /\ (psdk_running =>
                  client_calls' = client_calls \o <<"stop_receiving", "psdk_finalize">>)]_vars
    /\ [][(cpc = "stop_msdk" /\ cpc' # "stop_msdk" /\ msdk_running) =>
            client_calls' = Append(client_calls, "msdk_finalize")]_vars
    /\ [][nput' # nput => (receiving /\ cpc # "stop_msdk")]_vars

\* the join is over, the worker has ended, and the client still delivers
C8_Witness ==
    /\ cpc = "stop_psdk"
    /\ spawned = 1
    /\ wpc[1] = "exited"
    /\ receiving /\ registered
    /\ nput < MaxItems

\* C9: a stop() of an endpoint that was not started makes no client call, and the
\* teardown calls made on an endpoint's client never outnumber the start() calls
\* of that endpoint that returned True, however many stop() calls there are.
C9_StopIdempotent ==
    /\ Occurrences(client_calls, "stop_receiving") <= psdk_started
    /\ Occurrences(client_calls, "psdk_finalize") <= psdk_started
    /\ Occurrences(client_calls, "msdk_finalize") <= msdk_started

\* what the inbound client needs in order to deliver an item to the callback
ClientDelivers == receiving /\ registered

\* C10: whenever the inbound client delivers an item, data_callback can run,
\* whatever the length of the queue and wherever the worker is, and a call adds
\* exactly the new item at the tail of the queue and leaves the rest as it was.
C10_NonBlockingProducer ==
    /\ []((ClientDelivers /\ nput < MaxItems) => ENABLED data_callback)
    /\ [][nput' # nput =>
            /\ nput' = nput + 1
            /\ data_queue' = Append(data_queue, nput')]_vars

\* the newest item at the tail of a queue of two while a worker is in a send or has ended
C10_Witness ==
    /\ Len(data_queue) >= 2
    /\ data_queue[Len(data_queue)] = nput
    /\ \E w \in Workers : wpc[w] \in {"send_data", "exited"}

\* C11: PSDKReceiver.start() registers the callback, marks the receiver running
\* and returns True only on a client whose initialize() succeeded; a client
\* stored by a connect() that failed in initialize() is never used for that.
C11_StartNeedsConnectedClient ==
    /\ (registered \/ psdk_running) => psdk_client \in {"initialized", "finalized"}
    /\ psdk_started > 0 => psdk_client \in {"initialized", "finalized"}

\* C12: the thread started by the latest start() has ended only if
\* DataBridge.running is False, and a thread ends only in a step of its loop test
\* that finds the flag False after a stop(): never on a get that timed out, on a
\* send result or on an exception.
C12_WorkerEndsOnlyByStop ==
    /\ []((bridge_thread # 0 /\ wpc[bridge_thread] = "exited") => ~bridge_running)
    /\ [][\A w \in Workers :
            (wpc'[w] = "exited" /\ wpc[w] # "exited") =>
                (wpc[w] = "loop" /\ ~bridge_running /\ stop_calls > 0)]_vars

\* the thread has ended after a stop(), having seen a failed send and an empty queue
C12_Witness ==
    /\ wpc[1] = "exited"
    /\ 1 \in failed
    /\ data_queue = <<>>
    /\ ~bridge_running

\* C13: whatever start() and stop() calls are made, at most one worker thread is
\* alive and at most one send_data call is in progress.
C13_OneWorkerOneSend ==
    /\ Cardinality({w \in Workers : Alive(w)}) <= 1
    /\ Cardinality({w \in Workers : wpc[w] = "send_data"}) <= 1

\* C14: with one worker thread, once stop() has cleared DataBridge.running the
\* thread takes at most one more item off the queue and makes at most one more
\* send attempt before it ends, and once it has ended nothing leaves the queue
\* and nothing is sent: items put later stay on the queue.
C14_AtMostOneMoreAfterStop ==
    /\ [](spawned <= 1 => (after_stop[1] <= 1 /\ after_stop[2] <= 1))
    /\ [][(spawned' <= 1 /\ stop_calls > 0 /\ \A w \in Workers : ~Alive(w)) =>
            /\ IsPrefix(data_queue, data_queue')
            /\ sent' = sent]_vars

\* the thread took one more item after the flag was cleared, sent it and ended,
\* and an item is left on the queue
C14_Witness ==
    /\ spawned = 1
    /\ wpc[1] = "exited"
    /\ after_stop = <<1, 1>>
    /\ data_queue # <<>>

\* C15: MSDKTransmitter.stop() never finalizes the outbound client while a
\* send_data call of a worker thread is in progress, also when the join of
\* stop() has timed out.
C15_NoFinalizeDuringSend ==
    [][(msdk_client' = "finalized" /\ msdk_client # "finalized") =>
          \A w \in Workers : wpc[w] # "send_data"]_vars

\* C16: whenever start() of the DataBridge returns False, whichever call
\* failed, DataBridge.running is False, no worker thread is alive, and neither
\* PSDKReceiver.running nor MSDKTransmitter.running is True.
C16_FailedStartLeavesNothingRunning ==
    [][((start_calls' > start_calls \/ cpc = "rollback") /\ cpc' = "idle") =>
          /\ start_ret' = "False"
          /\ ~bridge_running'
          /\ \A w \in Workers : wpc'[w] \in {"unborn", "exited"}
          /\ ~psdk_running'
          /\ ~msdk_running']_vars

\* C17: when a worker thread begins a send attempt the outbound client has been
\* initialized and not finalized and MSDKTransmitter.running is True, and when it
\* takes an item off the queue PSDKReceiver.start() has returned True before.
C17_TransmitterLiveBeforeSend ==
    /\ [][sent' # sent => (msdk_client = "initialized" /\ msdk_running)]_vars
    /\ [][Len(data_queue') < Len(data_queue) => psdk_started > 0]_vars

\* C18: an item put on the queue before a DataBridge was constructed (left there
\* by the instance before it) is never passed to send_signal by a thread of that
\* DataBridge.
C18_NoStaleItemSent ==
    [][sent' # sent => sent'[Len(sent')] \notin stale]_vars

\* C19: a thread calls task_done once for each item it got, after the send
\* attempt for it has returned and whatever the result: the unfinished count of
\* the queue is the number of items queued plus the number of items a thread
\* holds (from get returning to task_done), it goes down only by task_done of a
\* thread holding an item, by one, and that step leaves the queue as it is.
C19_CompletionBookkeeping ==
    /\ [](unfinished = Len(data_queue)
                         + Cardinality({w \in Workers : held[w] # 0}))
    /\ [][\A w \in Workers :
            /\ (held[w] # 0 /\ held'[w] # held[w]) =>
                  /\ wpc[w] = "task_done"
                  /\ held[w] \in Range(sent)
                  /\ held'[w] = 0
                  /\ unfinished' = unfinished - 1
                  /\ data_queue' = data_queue
            /\ (wpc'[w] \in {"loop", "exited"} /\ wpc[w] \notin {"unborn", "exited"}) =>
                  held'[w] = 0]_vars
    /\ [][unfinished' < unfinished =>
            \E w \in Workers : wpc[w] = "task_done" /\ held[w] # 0]_vars

C19_Witness ==
    /\ sent = <<1>> /\ 1 \in failed
    /\ \A w \in Workers : held[w] = 0
    /\ data_queue = <<2>> /\ unfinished = 1
====
